---- MODULE Spec2Model ----
(***************************************************************************)
(* A model of the alchemy bot: the webhook handlers and the git-write      *)
(* pipeline of alchemy/github.py and the flat-file cache of                *)
(* alchemy/loader.py.                                                      *)
(*                                                                         *)
(* Text is modelled as a sequence of tokens.  A token is one character,    *)
(* or one literal of the source that the code only ever handles whole      *)
(* (the response prefix '%%%', the URL head 'https://github.com/o/r/blob/').*)
(*                                                                         *)
(* Every function of the source is modelled from its own body, statement   *)
(* by statement.  A statement Python cannot execute (a call with the wrong *)
(* number of arguments, an unknown keyword, an assignment to a namedtuple  *)
(* field) ends the call with the exception Python raises there.            *)
(*                                                                         *)
(* Two things the source leaves to its libraries are inputs of the model:  *)
(* an event can be subscripted as the handlers do (event["comment"]), and  *)
(* whether get_branch / get_git_ref raise for a missing branch or return   *)
(* None, which the source asks itself at line 102 ("will it explode if     *)
(* 404?"), is chosen at the start (raisesOn404) and both are explored.     *)
(***************************************************************************)
EXTENDS Integers, Sequences, FiniteSets, TLC

VARIABLES
    refs,        \* github: branch name -> head commit sha (0: no such ref)
    commits,     \* github: git commits, sha = index; each [parent, path, content]
    pulls,       \* github: pull requests opened, each [head, base]
    replies,     \* github: review-comment replies posted
    api,         \* the GitHub write calls issued by the latest call, in order
    last,        \* the latest call: function, arguments and how it ended
    dispatch,    \* webhook: per delivered event, the handlers it was given to
    raisesOn404, \* whether the REST client raises for a missing branch/ref
    files,       \* cache directory: path -> mtime of each existing file
    now,         \* time.time()
    cacheLast,   \* the latest loader call and what it returned
    arg,         \* input of the pure function under study
    ret,         \* its result
    pc           \* "ready" before it is applied, "done" after

vars == <<refs, commits, pulls, replies, api, last, dispatch, raisesOn404,
          files, now, cacheLast, arg, ret, pc>>

githubVars == <<refs, commits, pulls, replies, api, last, dispatch, raisesOn404>>
cacheVars == <<files, now, cacheLast>>
pureVars == <<arg, ret, pc>>

(***************************************************************************)
(* Bounds of the model.                                                    *)
(***************************************************************************)
MaxRespLen == 5      \* tokens in an LLM response
MaxCommits == 3      \* commits in the repository
MaxEvents == 3       \* webhook deliveries
MaxTime == 2         \* clock ticks
MaxAge == 2          \* largest CacheOptions.max_age tried
MaxNameLen == 3      \* characters in an owner, repo, branch or sha
MaxChunks == 3       \* chunks of text or URL on one line of a body
MaxLines == 2        \* lines in a body

(***************************************************************************)
(* Python string helpers.                                                  *)
(***************************************************************************)
NL == "\n"
SP == " "

RECURSIVE SeqsUpTo(_, _)
\* All sequences over S of length 0..n.
SeqsUpTo(S, n) ==
    IF n = 0 THEN {<<>>}
    ELSE LET shorter == SeqsUpTo(S, n - 1)
         IN shorter \cup {Append(s, x) : s \in shorter, x \in S}

\* Index of the first occurrence of token t in s, 0 when there is none.
IndexOf(s, t) ==
    IF \E i \in 1..Len(s) : s[i] = t
    THEN CHOOSE i \in 1..Len(s) : s[i] = t /\ \A j \in 1..(i - 1) : s[j] # t
    ELSE 0

Count(s, t) == Cardinality({i \in 1..Len(s) : s[i] = t})

RECURSIVE splitlines(_)
\* str.splitlines(): lines without their terminators, no trailing empty line.
splitlines(s) ==
    IF s = <<>> THEN <<>>
    ELSE LET i == IndexOf(s, NL)
         IN IF i = 0 THEN <<s>>
            ELSE <<SubSeq(s, 1, i - 1)>> \o splitlines(SubSeq(s, i + 1, Len(s)))

\* str.strip(): leading and trailing whitespace removed.
strip(s) ==
    LET keep == {i \in 1..Len(s) : s[i] # SP /\ s[i] # NL}
    IN IF keep = {} THEN <<>>
       ELSE LET lo == CHOOSE i \in keep : \A j \in keep : i <= j
                hi == CHOOSE i \in keep : \A j \in keep : j <= i
            IN SubSeq(s, lo, hi)

(***************************************************************************)
(* github.py: splitting the LLM response (_make_freeform_changes, the loop *)
(* over resp.splitlines()).                                                *)
(***************************************************************************)
_RESP_PATH_PREFIX == "%%%"

\* str.startswith(_RESP_PATH_PREFIX)
startswith_prefix(line) == Len(line) >= 1 /\ line[1] = _RESP_PATH_PREFIX

\* OutputFile.content of the last file cannot be assigned: OutputFile is a
\* namedtuple, so `output_files[-1].content += ...` raises AttributeError
\* (IndexError when the list is still empty).
append_content(acc, line) ==
    IF acc.files = <<>> THEN [acc EXCEPT !.exc = "IndexError"]
    ELSE [acc EXCEPT !.exc = "AttributeError"]

\* One iteration of the loop over the lines.
split_step(acc, line) ==
    IF acc.exc # "none" THEN acc
    ELSE IF startswith_prefix(line)
         THEN \* `_, key = line.split(prefix)` unpacks exactly two parts
              IF Count(line, _RESP_PATH_PREFIX) # 1
              THEN [acc EXCEPT !.exc = "ValueError"]
              ELSE [acc EXCEPT !.files = Append(@,
                        [path |-> strip(SubSeq(line, 2, Len(line))), content |-> <<>>])]
         ELSE append_content(acc, line)

RECURSIVE split_loop(_, _)
split_loop(acc, lines) ==
    IF lines = <<>> THEN acc
    ELSE split_loop(split_step(acc, Head(lines)), Tail(lines))

\* output_files after the loop, or the exception that ended it.
split_response(resp) ==
    split_loop([files |-> <<>>, exc |-> "none"], splitlines(resp))

(***************************************************************************)
(* loader.py: the flat-file cache.                                         *)
(***************************************************************************)
DefaultMaxAge == 60

\* CacheOptions(): path "~/.alchemy", force_update False, max_age 60.
CacheOptions == [path |-> <<"~", "/", ".alchemy">>, force_update |-> FALSE,
                 max_age |-> DefaultMaxAge]

\* RepoOptions(owner, repo): branch "main", commit_sha None (modelled as the
\* empty string, which the code treats alike: `if repo_opts.commit_sha`).
RepoOptions(owner, repo) ==
    [owner |-> owner, repo |-> repo, branch |-> <<"main">>, commit_sha |-> <<>>]

\* Path.expanduser(): a leading "~" becomes the home directory.
expanduser(p) ==
    IF p # <<>> /\ Head(p) = "~" THEN <<"/home/bot">> \o Tail(p) ELSE p

_get_cache_name(repo_opts) ==
    repo_opts.owner \o <<"-">> \o repo_opts.repo \o <<"-">>
        \o (IF repo_opts.commit_sha # <<>> THEN repo_opts.commit_sha
            ELSE repo_opts.branch)

_get_cache_path(repo_opts, cache_opts, ext) ==
    expanduser(cache_opts.path) \o <<"/">> \o _get_cache_name(repo_opts)
        \o (IF ext # <<>> THEN <<".">> \o ext ELSE <<>>)

\* (time.time() - path.stat().st_mtime) < max_age or not force_update
_cache_is_usable(fs, t, path, cache_opts) ==
    (t - fs[path].mtime) < cache_opts.max_age \/ ~cache_opts.force_update

\* The bytes of the cache file, or None.
_get_cache(fs, t, ext, repo_opts, cache_opts) ==
    LET cache_path == _get_cache_path(repo_opts, cache_opts, ext)
    IN IF cache_path \in DOMAIN fs /\ _cache_is_usable(fs, t, cache_path, cache_opts)
       THEN fs[cache_path].data
       ELSE "None"

\* The cache directory after the write.
_put_cache(fs, t, data, ext, repo_opts, cache_opts) ==
    LET cache_path == _get_cache_path(repo_opts, cache_opts, ext)
    IN [p \in DOMAIN fs \cup {cache_path} |->
            IF p = cache_path THEN [mtime |-> t, data |-> data] ELSE fs[p]]

EXT_DOCS == <<"docs", ".", "pkl">>
EXT_SV == <<"sv", ".", "idx", ".", "json">>
\* the extension tests/test_loader.py looks for
EXT_TEST == <<"idx", ".", "json">>

\* The cache directory after _load_documents, and where the documents came from.
_load_documents(fs, t, repo_opts, cache_opts) ==
    IF _get_cache(fs, t, EXT_DOCS, repo_opts, cache_opts) # "None"
    THEN [files |-> fs, from |-> "cache"]
    ELSE [files |-> _put_cache(fs, t, "pickle", EXT_DOCS, repo_opts, cache_opts),
          from |-> "github"]

\* The cache directory after create_simple_vector_index, and where the index
\* came from.
create_simple_vector_index(fs, t, repo_opts, cache_opts) ==
    IF _get_cache(fs, t, EXT_SV, repo_opts, cache_opts) # "None"
    THEN [files |-> fs, from |-> "cache"]
    ELSE LET docs == _load_documents(fs, t, repo_opts, cache_opts)
         IN [files |-> _put_cache(docs.files, t, "json", EXT_SV, repo_opts, cache_opts),
             from |-> "documents"]

\* Inputs of the loader calls.
SampleRepoOpts ==
    {RepoOptions(<<"inhumantsar">>, <<"tacostats">>),
     [RepoOptions(<<"inhumantsar">>, <<"alchemy">>) EXCEPT !.commit_sha = <<"c0ffee">>]}
SampleCacheOpts ==
    {[CacheOptions EXCEPT !.force_update = f, !.max_age = a] :
        f \in BOOLEAN, a \in 1..MaxAge}
SampleExts == {EXT_DOCS, EXT_SV}

NoFiles == [p \in {} |-> [mtime |-> 0, data |-> "None"]]

NoCacheCall ==
    [fn |-> "none", ext |-> <<>>, repo_opts |-> RepoOptions(<<>>, <<>>),
     cache_opts |-> CacheOptions, existed |-> FALSE, age |-> 0, result |-> "None"]

CacheInit == files = NoFiles /\ now = 0 /\ cacheLast = NoCacheCall

\* time passes
Tick ==
    /\ now < MaxTime
    /\ now' = now + 1
    /\ UNCHANGED <<files, cacheLast, githubVars, pureVars>>

\* The age of the file a call looks at, as the call sees it.
ExistedAt(ext, ro, co) == _get_cache_path(ro, co, ext) \in DOMAIN files
AgeAt(ext, ro, co) ==
    IF ExistedAt(ext, ro, co) THEN now - files[_get_cache_path(ro, co, ext)].mtime ELSE 0

Call_get_cache ==
    \E ext \in SampleExts, ro \in SampleRepoOpts, co \in SampleCacheOpts :
        /\ cacheLast' = [fn |-> "_get_cache", ext |-> ext, repo_opts |-> ro,
                         cache_opts |-> co, existed |-> ExistedAt(ext, ro, co),
                         age |-> AgeAt(ext, ro, co),
                         result |-> _get_cache(files, now, ext, ro, co)]
        /\ UNCHANGED <<files, now, githubVars, pureVars>>

Call_load_documents ==
    \E ro \in SampleRepoOpts, co \in SampleCacheOpts :
        LET r == _load_documents(files, now, ro, co)
        IN /\ files' = r.files
           /\ cacheLast' = [fn |-> "_load_documents", ext |-> EXT_DOCS, repo_opts |-> ro,
                            cache_opts |-> co, existed |-> ExistedAt(EXT_DOCS, ro, co),
                            age |-> AgeAt(EXT_DOCS, ro, co), result |-> r.from]
           /\ UNCHANGED <<now, githubVars, pureVars>>

Call_create_simple_vector_index ==
    \E ro \in SampleRepoOpts, co \in SampleCacheOpts :
        LET r == create_simple_vector_index(files, now, ro, co)
        IN /\ files' = r.files
           /\ cacheLast' = [fn |-> "create_simple_vector_index", ext |-> EXT_SV,
                            repo_opts |-> ro, cache_opts |-> co,
                            existed |-> ExistedAt(EXT_SV, ro, co),
                            age |-> AgeAt(EXT_SV, ro, co), result |-> r.from]
           /\ UNCHANGED <<now, githubVars, pureVars>>

(***************************************************************************)
(* github.py: the repository behind the REST client, and the git-write     *)
(* pipeline.  A call works on a record st of the state it can change:      *)
(* [refs, commits, pulls, replies, api, files, exc], exc the exception     *)
(* that ended it ("none": it returned).                                    *)
(***************************************************************************)
GH_BOT_UID == 1

Branches == {"main", "bot/issue-1"}
default_branch == "main"
RootCommit == [parent |-> 0, path |-> <<>>, content |-> <<>>]

\* One GitHub write call, as logged in api.
ApiCall(op, branch, sha, parent) ==
    [op |-> op, branch |-> branch, sha |-> sha, parent |-> parent]

raise(st, exc) == [st EXCEPT !.exc = exc]

\* _create_or_update_branch(cmd, commit_id): get_git_ref, ref.edit when it
\* is there, and then create_git_ref in either case (there is no else).
\* GitHub refuses to create a ref that exists (422).
_create_or_update_branch(st, raises, branch, commit_id) ==
    IF st.refs[branch] # 0
    THEN LET edited == [st EXCEPT !.refs[branch] = commit_id,
                                  !.api = Append(@, ApiCall("edit_ref", branch, commit_id, 0))]
         IN raise([edited EXCEPT
                       !.api = Append(@, ApiCall("create_git_ref", branch, commit_id, 0))],
                  "GithubException")
    ELSE IF raises THEN raise(st, "GithubException")
    ELSE [st EXCEPT !.refs[branch] = commit_id,
                    !.api = Append(@, ApiCall("create_git_ref", branch, commit_id, 0))]

\* _update_file_content(repo, cmd, path, content, parent): the new commit is
\* the last of st.commits; parent 0 is None.
_update_file_content(st, raises, branch, path, content, parent) ==
    IF parent = 0 /\ st.refs[branch] = 0 /\ raises
    THEN raise(st, "GithubException")
    ELSE LET head == IF parent # 0 THEN parent
                     ELSE IF st.refs[branch] # 0 THEN st.refs[branch]
                     ELSE st.refs[default_branch]
             sha == Len(st.commits) + 1
         IN [st EXCEPT
                !.commits = Append(@, [parent |-> head, path |-> path, content |-> content]),
                !.api = Append(@, ApiCall("create_git_commit", "", sha, head))]

\* str(Branch): what an f-string makes of the Branch object that line 104
\* stores in repo_opts.branch.
BranchRepr(b) == <<"Branch(name=\"", b, "\")">>

\* The loop over output_files: the first file is committed, and the call of
\* _create_or_update_branch that follows passes three arguments to a function
\* of two, which raises TypeError before the function is entered.
write_output_files(st, raises, branch, output_files) ==
    IF output_files = <<>> THEN st
    ELSE LET f == Head(output_files)
             c == _update_file_content(st, raises, branch, f.path, f.content, 0)
         IN IF c.exc # "none" THEN c ELSE raise(c, "TypeError")

_make_freeform_changes(st, raises, t, cmd, resp) ==
    IF st.refs[cmd.branch] = 0 /\ raises
    THEN raise(st, "GithubException")
    ELSE LET base == RepoOptions(<<"o">>, <<"r">>)
             repo_opts == IF st.refs[cmd.branch] # 0
                          THEN [base EXCEPT !.branch = BranchRepr(cmd.branch)]
                          ELSE base
             indexed == [st EXCEPT !.files =
                            create_simple_vector_index(@, t, repo_opts, CacheOptions).files]
             split == split_response(resp)
         IN IF split.exc # "none" THEN raise(indexed, split.exc)
            ELSE write_output_files(indexed, raises, cmd.branch, split.files)

\* _make_targeted_changes(): pass
_make_targeted_changes(st) == st

_make_changes(st, raises, t, cmd, resp) ==
    IF cmd.targets # <<>> THEN _make_targeted_changes(st)
    ELSE _make_freeform_changes(st, raises, t, cmd, resp)

\* handle_issues_opened: the three asserts, then line 150, which Python
\* rejects (a positional argument after ** unpacking; EditCommand has no
\* field "cmd" either), so nothing after the asserts is carried out.
handle_issues_opened(st, event) ==
    IF event.body = <<>> \/ event.number = 0 \/ event.title = <<>>
    THEN raise(st, "AssertionError")
    ELSE raise(st, "SyntaxError")

\* The asserts without the second: the bot answers its own comments.
pr_comment_allowed_own_comments(event) == event.pr_user = GH_BOT_UID

\* The two asserts of handle_pr_comment.
pr_comment_allowed(event) ==
    event.pr_user = GH_BOT_UID /\ event.comment_user # GH_BOT_UID

\* handle_pr_comment: the asserts, the line numbers (read from the top level
\* of the event), and _make_changes called with one argument for two.
handle_pr_comment(st, event) ==
    IF ~pr_comment_allowed(event) THEN raise(st, "AssertionError")
    ELSE IF ~event.has_line THEN raise(st, "KeyError")
    ELSE raise(st, "TypeError")

\* on_any_event: builds the installation client, then EditCommand(repo=...)
\* without its required command and branch; no handler is called.
on_any_event(st, event) == raise(st, "TypeError")

(***************************************************************************)
(* The calls, as actions.                                                  *)
(***************************************************************************)
NoEvent ==
    [type |-> "none", body |-> <<>>, number |-> 0, title |-> <<>>,
     pr_user |-> 0, comment_user |-> 0, has_line |-> FALSE]

NoCmd == [command |-> <<>>, branch |-> default_branch, targets |-> <<>>]

\* existed and head are the branch's state as the call found it.
NoCall ==
    [fn |-> "none", exc |-> "none", cmd |-> NoCmd, resp |-> <<>>, event |-> NoEvent,
     commit_id |-> 0, parent |-> 0, existed |-> FALSE, head |-> 0]

GithubInit ==
    /\ refs \in [Branches -> {0, 1}]
    /\ refs[default_branch] = 1
    /\ commits = <<RootCommit>>
    /\ pulls = <<>>
    /\ replies = <<>>
    /\ api = <<>>
    /\ last = NoCall
    /\ dispatch = <<>>
    /\ raisesOn404 \in BOOLEAN

\* The repository when only the loader or a pure function is studied.
GithubIdle ==
    /\ refs = [b \in Branches |-> IF b = default_branch THEN 1 ELSE 0]
    /\ commits = <<RootCommit>>
    /\ pulls = <<>>
    /\ replies = <<>>
    /\ api = <<>>
    /\ last = NoCall
    /\ dispatch = <<>>
    /\ raisesOn404 = TRUE

PureIdle == arg = <<>> /\ ret = <<>> /\ pc = "idle"

\* The state a call starts from.  The clock stands still during the calls
\* of github.py: they use CacheOptions(), under which a cache file is usable
\* at any age.
Start ==
    [refs |-> refs, commits |-> commits, pulls |-> pulls, replies |-> replies,
     api |-> <<>>, files |-> files, exc |-> "none"]

\* The state a call leaves behind.
Finish(st, call) ==
    /\ refs' = st.refs
    /\ commits' = st.commits
    /\ pulls' = st.pulls
    /\ replies' = st.replies
    /\ api' = st.api
    /\ files' = st.files
    /\ last' = [call EXCEPT !.exc = st.exc]
    /\ UNCHANGED <<raisesOn404, now, cacheLast, arg, ret, pc>>

\* The latest answers of the LLM that handle_issues_opened is tried with.
IssueResponses ==
    { <<_RESP_PATH_PREFIX, SP, "a">>,
      <<_RESP_PATH_PREFIX, SP, "a", NL, _RESP_PATH_PREFIX, SP, "b">> }

HeadOf(b) == IF refs[b] # 0 THEN refs[b] ELSE refs[default_branch]

SampleCommands == {<<"fix">>}
SamplePaths == {<<"a">>}
SampleTargets == {<<>>, <<[path |-> <<"a">>, commit |-> <<"c">>, block |-> <<1, 2>>]>>}
SampleResponses ==
    { <<>>,
      <<_RESP_PATH_PREFIX, SP, "a">>,
      <<_RESP_PATH_PREFIX, SP, "a", NL, _RESP_PATH_PREFIX, SP, "b">>,
      <<_RESP_PATH_PREFIX, SP, "a", NL, "x">>,
      <<"x">> }
SampleCmds ==
    [command : SampleCommands, branch : Branches, targets : SampleTargets]
\* An issue with body, number and title, and three that lack one of them.
IssueEvents ==
    LET full == [NoEvent EXCEPT !.type = "issues.opened", !.body = <<"fix">>,
                                !.number = 1, !.title = <<"t">>]
    IN {full, [full EXCEPT !.body = <<>>], [full EXCEPT !.number = 0],
        [full EXCEPT !.title = <<>>]}
CommentEvents ==
    {[NoEvent EXCEPT !.type = "pull_request_review_comment.created", !.body = <<"fix">>,
                     !.number = 1, !.pr_user = p, !.comment_user = c, !.has_line = h] :
        p \in {GH_BOT_UID, 2}, c \in {GH_BOT_UID, 2}, h \in BOOLEAN}

Call_create_or_update_branch ==
    \E b \in Branches, c \in 1..Len(commits) :
        /\ UNCHANGED dispatch
        /\ Finish(_create_or_update_branch(Start, raisesOn404, b, c),
               [NoCall EXCEPT !.fn = "_create_or_update_branch", !.cmd.branch = b,
                              !.commit_id = c, !.existed = refs[b] # 0, !.head = HeadOf(b)])

Call_update_file_content ==
    /\ Len(commits) < MaxCommits
    /\ UNCHANGED dispatch
    /\ \E b \in Branches, path \in SamplePaths, parent \in 0..Len(commits) :
        Finish(_update_file_content(Start, raisesOn404, b, path, <<>>, parent),
               [NoCall EXCEPT !.fn = "_update_file_content", !.cmd.branch = b,
                              !.parent = parent, !.existed = refs[b] # 0,
                              !.head = HeadOf(b)])

Call_make_changes ==
    /\ Len(commits) < MaxCommits
    /\ UNCHANGED dispatch
    /\ \E cmd \in SampleCmds, resp \in SampleResponses :
        Finish(_make_changes(Start, raisesOn404, now, cmd, resp),
               [NoCall EXCEPT !.fn = "_make_changes", !.cmd = cmd, !.resp = resp,
                              !.existed = refs[cmd.branch] # 0,
                              !.head = HeadOf(cmd.branch)])

\* The branch of issue 1 is bot/issue-1; resp is what the LLM would
\* answer if it were asked.
Call_handle_issues_opened ==
    \E event \in IssueEvents, resp \in IssueResponses :
        /\ UNCHANGED dispatch
        /\ Finish(handle_issues_opened(Start, event),
               [NoCall EXCEPT !.fn = "handle_issues_opened", !.event = event,
                              !.resp = resp,
                              !.cmd = [command |-> event.body, branch |-> "bot/issue-1",
                                       targets |-> <<>>],
                              !.existed = refs["bot/issue-1"] # 0,
                              !.head = HeadOf("bot/issue-1")])

Call_handle_pr_comment ==
    \E event \in CommentEvents :
        /\ UNCHANGED dispatch
        /\ Finish(handle_pr_comment(Start, event),
               [NoCall EXCEPT !.fn = "handle_pr_comment", !.event = event,
                              !.cmd = [command |-> event.body, branch |-> "bot/issue-1",
                                       targets |-> <<>>],
                              !.existed = refs["bot/issue-1"] # 0,
                              !.head = HeadOf("bot/issue-1")])

\* What GitHub delivers to the webhook.
SampleDeliveries ==
    { [NoEvent EXCEPT !.type = "ping"],
      [NoEvent EXCEPT !.type = "issues.opened", !.body = <<"fix">>, !.number = 1,
                      !.title = <<"t">>],
      [NoEvent EXCEPT !.type = "issues.opened", !.body = <<"fix">>, !.number = 2,
                      !.title = <<"t">>],
      [NoEvent EXCEPT !.type = "pull_request_review_comment.created", !.body = <<"fix">>,
                      !.number = 1, !.pr_user = GH_BOT_UID, !.comment_user = 2],
      [NoEvent EXCEPT !.type = "pull_request_review_comment.created", !.body = <<"fix">>,
                      !.number = 1, !.pr_user = 2, !.comment_user = 2] }

\* A webhook delivery: on_any_event listens to "*".
Deliver ==
    /\ Len(dispatch) < MaxEvents
    /\ \E event \in SampleDeliveries :
        /\ Finish(on_any_event(Start, event),
                  [NoCall EXCEPT !.fn = "on_any_event", !.event = event])
        /\ dispatch' = Append(dispatch, [event |-> event, handlers |-> <<>>])

Init == GithubInit /\ CacheInit /\ PureIdle

Next ==
    \/ Call_create_or_update_branch
    \/ Call_update_file_content
    \/ Call_make_changes
    \/ Call_handle_issues_opened
    \/ Call_handle_pr_comment

Spec == Init /\ [][Next]_vars

\* The webhook endpoint alone.
SpecWebhook == Init /\ [][Deliver]_vars

(***************************************************************************)
(* Claims about github.py.                                                 *)
(***************************************************************************)
IsCommit(c) == c.op = "create_git_commit"
SetsRef(c, branch, sha) ==
    c.op \in {"edit_ref", "create_git_ref"} /\ c.branch = branch /\ c.sha = sha

\* The latest call ran the freeform pipeline for a command without targets.
FreeformCall ==
    \/ last.fn = "_make_changes" /\ last.cmd.targets = <<>>
    \/ /\ last.fn = "handle_issues_opened"
       /\ last.event.body # <<>> /\ last.event.number # 0 /\ last.event.title # <<>>

\* C1: in the freeform pipeline, a response that yields files f1..fn makes
\* exactly n commits, the first on the head of cmd.branch (of the default
\* branch when cmd.branch does not exist), each next one on the one before,
\* the ref of cmd.branch is set to each commit before the next is created,
\* and the pull request is opened only after the ref is set to the last.
C1_CommitPerFileThenPull ==
    LET split == split_response(last.resp)
        cs == SelectSeq(api, IsCommit)
    IN (FreeformCall /\ split.exc = "none") =>
        /\ Len(cs) = Len(split.files)
        /\ \A k \in 1..Len(cs) :
              cs[k].parent = IF k = 1 THEN last.head ELSE cs[k - 1].sha
        /\ \A i \in 1..Len(api) :
              IsCommit(api[i]) =>
                  \E j \in (i + 1)..Len(api) :
                      /\ SetsRef(api[j], last.cmd.branch, api[i].sha)
                      /\ \A m \in (i + 1)..j : ~IsCommit(api[m])
        /\ \A i \in 1..Len(api) :
              api[i].op = "create_pull" =>
                  /\ \A m \in i..Len(api) : ~IsCommit(api[m])
                  /\ cs # <<>> =>
                        \E j \in 1..(i - 1) :
                            SetsRef(api[j], last.cmd.branch, cs[Len(cs)].sha)

\* C2: every delivered event is given to exactly the handler of its type:
\* an issue-opened event to handle_issues_opened once, a review comment to
\* handle_pr_comment once, and no event to more than one handler.
C2_OneHandlerPerEvent ==
    \A i \in 1..Len(dispatch) :
        LET d == dispatch[i]
        IN /\ d.event.type = "issues.opened" => d.handlers = <<"handle_issues_opened">>
           /\ d.event.type = "pull_request_review_comment.created"
                  => d.handlers = <<"handle_pr_comment">>
           /\ Len(d.handlers) <= 1

\* C7: when the pull request is not the bot's, or the comment is the bot's
\* own, handle_pr_comment stops at its asserts: it creates no commit, moves
\* no ref, opens no pull request and posts no reply.
C7_NoResponseToOthersOrSelf ==
    [][(/\ last'.fn = "handle_pr_comment"
        /\ (last'.event.pr_user # GH_BOT_UID \/ last'.event.comment_user = GH_BOT_UID))
       => /\ last'.exc = "AssertionError"
          /\ api' = <<>>
          /\ commits' = commits
          /\ refs' = refs
          /\ pulls' = pulls
          /\ replies' = replies]_vars

\* A comment of the bot itself on its own pull request has been handled.
C7_Witness ==
    /\ last.fn = "handle_pr_comment"
    /\ last.event.pr_user = GH_BOT_UID
    /\ last.event.comment_user = GH_BOT_UID
    /\ last.exc = "AssertionError"
    /\ Len(commits) > 1

\* C9: a call of _create_or_update_branch does exactly one ref operation:
\* an edit when the ref exists, a create when it does not, and the branch
\* points at commit_id afterwards.
C9_ExactlyOneRefOperation ==
    last.fn = "_create_or_update_branch" =>
        /\ Len(api) = 1
        /\ api[1].op = IF last.existed THEN "edit_ref" ELSE "create_git_ref"
        /\ refs[last.cmd.branch] = last.commit_id

\* No call reaches pr.create_review_comment_reply or repo.create_pull:
\* handle_pr_comment stops at line 174 at the latest and
\* handle_issues_opened at line 150.
NothingPosted == replies = <<>> /\ pulls = <<>>

(***************************************************************************)
(* The loader alone: the cache directory, the clock and the loader calls.  *)
(***************************************************************************)
CacheNext ==
    \/ Tick
    \/ Call_get_cache
    \/ Call_load_documents
    \/ Call_create_simple_vector_index

InitCache == GithubIdle /\ CacheInit /\ PureIdle

SpecCache == InitCache /\ [][CacheNext]_vars

\* C4: _get_cache returns the cached data exactly when the file exists, is
\* younger than max_age and force_update is false; otherwise it returns None.
C4_CacheUsedOnlyWhenFreshAndNotForced ==
    cacheLast.fn = "_get_cache" =>
        ((cacheLast.result # "None") <=>
            (/\ cacheLast.existed
             /\ cacheLast.age < cacheLast.cache_opts.max_age
             /\ ~cacheLast.cache_opts.force_update))

\* C6: after create_simple_vector_index returns, the file at
\* _get_cache_path(repo_opts, cache_opts, "idx.json") exists.
C6_IndexCacheFileExists ==
    cacheLast.fn = "create_simple_vector_index" =>
        _get_cache_path(cacheLast.repo_opts, cacheLast.cache_opts, EXT_TEST) \in DOMAIN files

(***************************************************************************)
(* The response splitter alone, over every response within the bound.      *)
(***************************************************************************)
RespTokens == {_RESP_PATH_PREFIX, SP, "a", NL}
Responses == SeqsUpTo(RespTokens, MaxRespLen)

NoSplit == [files |-> <<>>, exc |-> "none"]

InitSplit ==
    /\ GithubIdle /\ CacheInit
    /\ arg \in Responses
    /\ ret = NoSplit
    /\ pc = "ready"

Apply_split_response ==
    /\ pc = "ready"
    /\ ret' = split_response(arg)
    /\ pc' = "done"
    /\ UNCHANGED <<arg, githubVars, cacheVars>>

SpecSplit == InitSplit /\ [][Apply_split_response]_vars

\* What C8 says the split of a list of lines is: one pair per prefix line,
\* its path the stripped text after the prefix, its content the lines up to
\* the next prefix line, each followed by a newline.
RECURSIVE C8_Content(_)
C8_Content(lines) ==
    IF lines = <<>> \/ startswith_prefix(Head(lines)) THEN <<>>
    ELSE Head(lines) \o <<NL>> \o C8_Content(Tail(lines))

RECURSIVE C8_Pairs(_)
C8_Pairs(lines) ==
    IF lines = <<>> THEN <<>>
    ELSE IF startswith_prefix(Head(lines))
         THEN <<[path |-> strip(Tail(Head(lines))), content |-> C8_Content(Tail(lines))]>>
                  \o C8_Pairs(Tail(lines))
         ELSE C8_Pairs(Tail(lines))

\* C8: a response whose first line starts with '%%%' is split into one
\* (path, content) pair per prefix line, in order, the content being the
\* lines that follow it.
C8_OnePairPerPrefixLine ==
    LET lines == splitlines(arg)
    IN (pc = "done" /\ lines # <<>> /\ startswith_prefix(lines[1])) =>
           /\ ret.exc = "none"
           /\ ret.files = C8_Pairs(lines)

(***************************************************************************)
(* github.py: _target_regex and _get_targets_from_body.                    *)
(*                                                                         *)
(* Tokens of a body: URL_HEAD is a literal 'https://github.com/o/r/blob/', *)
(* "#L" and "-L" are the anchor literals, "3" and "5" digits, "/" a slash, *)
(* the rest are characters that are none of these.                         *)
(***************************************************************************)
URL_HEAD == "https://github.com/o/r/blob/"
Digits == {"3", "5"}
DigitVal(d) == IF d = "3" THEN 3 ELSE 5

RECURSIVE int(_)
\* int(str) of a string of digits
int(ds) ==
    IF ds = <<>> THEN 0
    ELSE 10 * int(SubSeq(ds, 1, Len(ds) - 1)) + DigitVal(ds[Len(ds)])

\* The first index above k whose token is in S, Len(line) + 1 when none is.
FirstIn(line, k, S) ==
    IF \E i \in (k + 1)..Len(line) : line[i] \in S
    THEN CHOOSE i \in (k + 1)..Len(line) :
             line[i] \in S /\ \A j \in (k + 1)..(i - 1) : line[j] \notin S
    ELSE Len(line) + 1

\* The end of the longest run of digits that starts right after index k.
DigitsEnd(line, k) ==
    FirstIn(line, k, {line[i] : i \in 1..Len(line)} \ Digits) - 1

NoMatch == [ok |-> FALSE, commit |-> <<>>, path_str |-> <<>>, start |-> <<>>,
            end |-> <<>>, stop |-> 0]

\* _target_regex tried at index k of a line:
\*   head (?P<commit>[^/]+) / (?P<path_str>[^#]+) #L (?P<start>\d+) (?:-L(?P<end>\d+))?
\* [^/]+ ends at the first token holding a slash, [^#]+ at the first "#L".
\* (Exact for lines whose URL_HEAD is followed by a commit and a slash, as
\* every line of Chunks is.)
regex_at(line, k) ==
    IF ~(k <= Len(line) /\ line[k] = URL_HEAD) THEN NoMatch
    ELSE LET i == FirstIn(line, k, {"/", URL_HEAD})
         IN IF ~(i <= Len(line) /\ line[i] = "/" /\ i > k + 1) THEN NoMatch
            ELSE LET j == FirstIn(line, i, {"#L"})
                     e == DigitsEnd(line, j)
                 IN IF ~(j <= Len(line) /\ j > i + 1 /\ e > j) THEN NoMatch
                    ELSE LET e2 == DigitsEnd(line, e + 1)
                             ranged == e + 1 <= Len(line) /\ line[e + 1] = "-L" /\ e2 > e + 1
                         IN [ok |-> TRUE,
                             commit |-> SubSeq(line, k + 1, i - 1),
                             path_str |-> SubSeq(line, i + 1, j - 1),
                             start |-> SubSeq(line, j + 1, e),
                             end |-> IF ranged THEN SubSeq(line, e + 2, e2) ELSE <<>>,
                             stop |-> IF ranged THEN e2 ELSE e]

\* _target_regex.match(line): the pattern is tried at the start of the line only.
regex_match(line) == regex_at(line, 1)

RECURSIVE Path(_)
\* pathlib.Path(str): repeated slashes collapse, a trailing slash goes.
Path(p) ==
    IF p = <<>> THEN <<>>
    ELSE IF Head(p) = "/" /\ (Len(p) = 1 \/ p[2] = "/") THEN Path(Tail(p))
    ELSE <<Head(p)>> \o Path(Tail(p))

\* EditTarget(Path(path_str), commit, (start, end)) of a match
EditTarget(m) ==
    LET start == int(m.start)
    IN [path |-> Path(m.path_str), commit |-> m.commit,
        block |-> <<start, IF m.end # <<>> THEN int(m.end) ELSE start + 1>>]

RECURSIVE targets_of_lines(_)
targets_of_lines(lines) ==
    IF lines = <<>> THEN <<>>
    ELSE LET m == regex_match(Head(lines))
         IN (IF m.ok THEN <<EditTarget(m)>> ELSE <<>>) \o targets_of_lines(Tail(lines))

\* The targets _get_targets_from_body yields, in order.
_get_targets_from_body(haystack) == targets_of_lines(splitlines(haystack))

(***************************************************************************)
(* The target extractor alone, over bodies built from words, spaces and    *)
(* permalinks.                                                             *)
(***************************************************************************)
URL_LINE == <<URL_HEAD, "c", "/", "p", "#L", "3">>
URL_RANGE == <<URL_HEAD, "c", "/", "q", "#L", "3", "-L", "5">>
Chunks == {<<"x">>, <<SP>>, URL_LINE, URL_RANGE}

RECURSIVE LinesOf(_)
\* The lines made of at most n chunks.
LinesOf(n) ==
    IF n = 0 THEN {<<>>}
    ELSE LET shorter == LinesOf(n - 1)
         IN shorter \cup {l \o c : l \in shorter, c \in Chunks}

RECURSIVE BodiesOf(_)
\* The bodies of 1..n lines.
BodiesOf(n) ==
    IF n = 1 THEN LinesOf(MaxChunks)
    ELSE LET shorter == BodiesOf(n - 1)
         IN shorter \cup {b \o <<NL>> \o l : b \in shorter, l \in LinesOf(MaxChunks)}

InitTargets ==
    /\ GithubIdle /\ CacheInit
    /\ arg \in BodiesOf(MaxLines)
    /\ ret = <<>>
    /\ pc = "ready"

Apply_get_targets_from_body ==
    /\ pc = "ready"
    /\ ret' = _get_targets_from_body(arg)
    /\ pc' = "done"
    /\ UNCHANGED <<arg, githubVars, cacheVars>>

SpecTargets == InitTargets /\ [][Apply_get_targets_from_body]_vars

RECURSIVE C3_Occurrences(_, _)
\* The permalinks with a line anchor that occur in a line from index k on,
\* left to right.
C3_Occurrences(line, k) ==
    IF k > Len(line) THEN <<>>
    ELSE LET m == regex_at(line, k)
         IN IF m.ok THEN <<EditTarget(m)>> \o C3_Occurrences(line, m.stop + 1)
            ELSE C3_Occurrences(line, k + 1)

RECURSIVE C3_AllOccurrences(_)
C3_AllOccurrences(lines) ==
    IF lines = <<>> THEN <<>>
    ELSE C3_Occurrences(Head(lines), 1) \o C3_AllOccurrences(Tail(lines))

\* C3: _get_targets_from_body yields one EditTarget for each permalink with
\* a line anchor that occurs in the body, in order of occurrence, wherever
\* on its line the permalink stands.
C3_OneTargetPerPermalink ==
    pc = "done" => ret = C3_AllOccurrences(splitlines(arg))

(***************************************************************************)
(* The cache key alone, over pairs of RepoOptions whose names are built    *)
(* from a letter and a hyphen.                                             *)
(***************************************************************************)
NameChars == {"a", "-"}
\* GitHub names neither start nor end with a hyphen.
Names ==
    {n \in SeqsUpTo(NameChars, MaxNameLen) :
        n # <<>> /\ Head(n) # "-" /\ n[Len(n)] # "-"}
RefNames == {n \in Names : Len(n) < MaxNameLen}
NameOpts ==
    [owner : Names, repo : Names, branch : RefNames, commit_sha : RefNames \cup {<<>>}]

InitName ==
    /\ GithubIdle /\ CacheInit
    /\ arg \in NameOpts \X NameOpts
    /\ ret = <<>>
    /\ pc = "ready"

Apply_get_cache_path ==
    /\ pc = "ready"
    /\ ret' = <<_get_cache_path(arg[1], CacheOptions, EXT_SV),
                _get_cache_path(arg[2], CacheOptions, EXT_SV)>>
    /\ pc' = "done"
    /\ UNCHANGED <<arg, githubVars, cacheVars>>

SpecName == InitName /\ [][Apply_get_cache_path]_vars

EffectiveRef(ro) == IF ro.commit_sha # <<>> THEN ro.commit_sha ELSE ro.branch

\* C5: two RepoOptions get the same cache file path exactly when they have
\* the same owner, the same repo and the same effective ref.
C5_CacheKeyedByRepoAndRef ==
    pc = "done" =>
        ((ret[1] = ret[2]) <=>
            (/\ arg[1].owner = arg[2].owner
             /\ arg[1].repo = arg[2].repo
             /\ EffectiveRef(arg[1]) = EffectiveRef(arg[2])))

====
